---- MODULE Spec2Model ----
(***************************************************************************)
(* Model of src/submissions/Python_Task_2.py: the distance-matrix builder  *)
(* (Floyd-Warshall), the matrix unroller, the ten-percent threshold        *)
(* filter, the toll-rate calculator and the time-based rate adjuster.      *)
(*                                                                         *)
(* Numbers.  The program computes in IEEE float64, and so does the model:  *)
(* a finite float is the exact value sign * magnitude * 2^exponent with a  *)
(* magnitude below 2^53, and every sum, difference, product and quotient   *)
(* is rounded to the nearest float, ties to even.  The magnitude is a      *)
(* natural of any size, kept as a little-endian sequence of 15-bit limbs.  *)
(* The special values follow IEEE (inf - inf = NaN, every comparison with  *)
(* NaN is false).  Overflow to infinity, subnormals and the sign of zero   *)
(* are not modelled: no value of the model comes near them.                *)
(*                                                                         *)
(* Tables.  A pandas DataFrame is a record [columns, rows]: rows is the    *)
(* sequence of its rows in positional order, each row carrying its index   *)
(* label idx; columns is FALSE for pd.DataFrame([]), the frame without any *)
(* column that the unroller produces when it collected no record.          *)
(***************************************************************************)
EXTENDS Integers, Sequences, FiniteSets, TLC

\* ------------------------------------------------------------------ bounds
\* identifiers in play
NumNodes == 3
\* rows of an input table, when only the builder and the unroller run
MaxRows == 3
\* rows of an input table, when the downstream calls run too
MaxCallRows == 2
\* largest integer-valued input distance (the smallest is -1)
MaxDist == 1
\* identifiers in play when the paths of the built matrix are examined
PathNodes == 4

\* The reference node of calculate_time_based_toll_rates.
RefNode == 1001400

NodeIds == {RefNode + n : n \in 0..(NumNodes - 1)}
PathIds == {RefNode + n : n \in 0..(PathNodes - 1)}

\* ----------------------------------------------------------------- numbers
\* bits of a limb
LimbBits == 15
\* bits of the significand of a float64
Precision == 53
Base == 2 ^ LimbBits

\* ---- naturals of any size: little-endian sequences of limbs below Base,
\* without a leading zero limb; they carry the significands and the exact
\* sums and products before rounding
\* the lowest limb, and the limbs above it
Limb(x) == IF Len(x) = 0 THEN 0 ELSE Head(x)
Rest(x) == IF Len(x) = 0 THEN x ELSE Tail(x)

RECURSIVE BFromNat(_)
\* the limbs of the integer n >= 0
BFromNat(n) == IF n = 0 THEN <<>> ELSE <<n % Base>> \o BFromNat(n \div Base)

RECURSIVE BStrip(_)
\* x without its leading zero limbs
BStrip(x) ==
  IF Len(x) > 0 /\ x[Len(x)] = 0 THEN BStrip(SubSeq(x, 1, Len(x) - 1)) ELSE x

RECURSIVE BAddC(_, _, _)
\* x + y + c, for a carry c
BAddC(x, y, c) ==
  IF Len(x) = 0 /\ Len(y) = 0 THEN BFromNat(c)
  ELSE LET t == Limb(x) + Limb(y) + c IN
       <<t % Base>> \o BAddC(Rest(x), Rest(y), t \div Base)

BAdd(x, y) == BAddC(x, y, 0)

RECURSIVE BSubC(_, _, _)
\* the limbs of x - y - b, for a borrow b
BSubC(x, y, b) ==
  IF Len(x) = 0 THEN <<>>
  ELSE LET t == Limb(x) - Limb(y) - b IN
       <<t % Base>> \o BSubC(Rest(x), Rest(y), IF t < 0 THEN 1 ELSE 0)

\* x - y, for x >= y
BSub(x, y) == BStrip(BSubC(x, y, 0))

RECURSIVE BCmpFrom(_, _, _)
\* the comparison of the lowest n limbs of x and y, from the top down
BCmpFrom(x, y, n) ==
  IF n = 0 THEN 0
  ELSE IF x[n] < y[n] THEN -1
  ELSE IF x[n] > y[n] THEN 1
  ELSE BCmpFrom(x, y, n - 1)

\* -1, 0 or 1 as x is below, equal to or above y
BCmp(x, y) ==
  IF Len(x) < Len(y) THEN -1
  ELSE IF Len(x) > Len(y) THEN 1
  ELSE BCmpFrom(x, y, Len(x))

RECURSIVE BMulC(_, _, _)
\* the limbs of x * m + c
BMulC(x, m, c) ==
  IF Len(x) = 0 THEN BFromNat(c)
  ELSE LET t == Head(x) * m + c IN
       <<t % Base>> \o BMulC(Tail(x), m, t \div Base)

\* x * m, for m < Base
BMulSmall(x, m) == IF m = 1 THEN x ELSE BStrip(BMulC(x, m, 0))

\* x * Base^n
BShiftLimbs(x, n) == IF Len(x) = 0 THEN x ELSE [m \in 1..n |-> 0] \o x

RECURSIVE BMul(_, _)
\* x * y
BMul(x, y) ==
  IF Len(x) = 0 \/ Len(y) = 0 THEN <<>>
  ELSE BAdd(BMulSmall(x, Head(y)), BShiftLimbs(BMul(x, Tail(y)), 1))

RECURSIVE BDivFrom(_, _, _, _)
\* long division of the lowest idx limbs of x by n, rem carried in from above
BDivFrom(x, n, idx, rem) ==
  IF idx = 0 THEN <<(<<>>), rem>>
  ELSE LET cur == rem * Base + x[idx]
           lower == BDivFrom(x, n, idx - 1, cur % n)
       IN <<Append(lower[1], cur \div n), lower[2]>>

\* <<x div n, x mod n>>, for 0 < n <= Base
BDivSmall(x, n) ==
  LET r == BDivFrom(x, n, Len(x), 0) IN <<BStrip(r[1]), r[2]>>

\* x * 2^s
BShl(x, s) == BShiftLimbs(BMulSmall(x, 2 ^ (s % LimbBits)), s \div LimbBits)

\* x div 2^s
BShr(x, s) ==
  IF s \div LimbBits >= Len(x) THEN <<>>
  ELSE LET hi == SubSeq(x, (s \div LimbBits) + 1, Len(x)) IN
       IF s % LimbBits = 0 THEN hi ELSE BDivSmall(hi, 2 ^ (s % LimbBits))[1]

RECURSIVE IntBits(_)
\* the number of bits of the integer n >= 0
IntBits(n) == IF n = 0 THEN 0 ELSE 1 + IntBits(n \div 2)

\* the number of bits of x
BitLen(x) ==
  IF Len(x) = 0 THEN 0 ELSE (Len(x) - 1) * LimbBits + IntBits(x[Len(x)])

RECURSIVE TrailingZeros(_)
\* the number of zero bits below the lowest one bit of n > 0
TrailingZeros(n) == IF n % 2 = 1 THEN 0 ELSE 1 + TrailingZeros(n \div 2)

\* ---- float64
\* A float is <<class, sign, magnitude, exponent>>: the finite value
\* sign * magnitude * 2^exponent with an odd magnitude below 2^53 (zero has
\* sign 0 and magnitude <<>>), an infinity of either sign, or NaN.
Zero == <<"fin", 0, <<>>, 0>>
Inf == <<"inf", 1, <<>>, 0>>
NaN == <<"nan", 0, <<>>, 0>>
IsNaN(x) == x[1] = "nan"
IsInf(x) == x[1] = "inf"
IsFin(x) == x[1] = "fin"

Sign(n) == IF n > 0 THEN 1 ELSE IF n < 0 THEN -1 ELSE 0

RECURSIVE Canon(_, _, _)
\* the float sign * mag * 2^exp, its magnitude made odd
Canon(sgn, mag, exp) ==
  IF Len(mag) = 0 THEN Zero
  ELSE IF mag[1] = 0 THEN Canon(sgn, Tail(mag), exp + LimbBits)
  ELSE IF mag[1] % 2 = 1 THEN <<"fin", sgn, mag, exp>>
  ELSE LET z == TrailingZeros(mag[1]) IN
       <<"fin", sgn, BDivSmall(mag, 2 ^ z)[1], exp + z>>

\* sign * mag * 2^exp (plus a non-zero fraction below one unit of mag when
\* sticky) rounded to the nearest float, ties to even
Round(sgn, mag, exp, sticky) ==
  LET excess == BitLen(mag) - Precision IN
  IF excess <= 0 THEN Canon(sgn, mag, exp)
  ELSE LET q == BShr(mag, excess)
           rest == BSub(mag, BShl(q, excess))
           c == BCmp(rest, BShl(<<1>>, excess - 1))
           up == c > 0 \/ (c = 0 /\ (sticky \/ q[1] % 2 = 1))
       IN Canon(sgn, IF up THEN BAdd(q, <<1>>) ELSE q, exp + excess)

\* an integer as a float
Fin(n) == Canon(Sign(n), BFromNat(IF n < 0 THEN 0 - n ELSE n), 0)

Min(a, b) == IF a < b THEN a ELSE b

\* the magnitude of the finite x in units of 2^e, for e <= x's exponent
Aligned(x, e) == BShl(x[3], x[4] - e)

\* float addition
Add(x, y) ==
  IF IsNaN(x) \/ IsNaN(y) THEN NaN
  ELSE IF IsInf(x) /\ IsInf(y) THEN (IF x[2] = y[2] THEN x ELSE NaN)
  ELSE IF IsInf(x) THEN x
  ELSE IF IsInf(y) THEN y
  ELSE IF x[2] = 0 THEN y
  ELSE IF y[2] = 0 THEN x
  ELSE LET e == Min(x[4], y[4])
           a == Aligned(x, e)
           b == Aligned(y, e)
           c == BCmp(a, b)
       IN IF x[2] = y[2] THEN Round(x[2], BAdd(a, b), e, FALSE)
          ELSE IF c = 0 THEN Zero
          ELSE IF c > 0 THEN Round(x[2], BSub(a, b), e, FALSE)
          ELSE Round(y[2], BSub(b, a), e, FALSE)

\* float negation
Neg(x) == <<x[1], 0 - x[2], x[3], x[4]>>

\* float subtraction
Sub(x, y) == Add(x, Neg(y))

\* float multiplication
Mul(x, y) ==
  IF IsNaN(x) \/ IsNaN(y) THEN NaN
  ELSE IF IsInf(x) \/ IsInf(y)
       THEN (IF x[2] = 0 \/ y[2] = 0 THEN NaN ELSE <<"inf", x[2] * y[2], <<>>, 0>>)
  ELSE IF x[2] = 0 \/ y[2] = 0 THEN Zero
  ELSE Round(x[2] * y[2], BMul(x[3], y[3]), x[4] + y[4], FALSE)

\* float division by the positive integer n (a count, or the power of ten
\* of a decimal literal): the quotient of the significand carried to more
\* than 53 bits, the remainder deciding the ties
Div(x, n) ==
  IF ~IsFin(x) \/ x[2] = 0 THEN x
  ELSE LET s == Precision + 2 * LimbBits
           qr == BDivSmall(BShl(x[3], s), n)
       IN Round(x[2], qr[1], x[4] - s, qr[2] # 0)

\* the float a decimal literal n/d denotes
Dec(n, d) == Div(Fin(n), d)

\* -1, 0 or 1 as x is below, equal to or above y, neither being NaN
Compare(x, y) ==
  IF IsInf(x) /\ IsInf(y) THEN Sign(x[2] - y[2])
  ELSE IF IsInf(x) THEN x[2]
  ELSE IF IsInf(y) THEN 0 - y[2]
  ELSE IF x[2] # y[2] THEN Sign(x[2] - y[2])
  ELSE IF x[2] = 0 THEN 0
  ELSE LET e == Min(x[4], y[4]) IN x[2] * BCmp(Aligned(x, e), Aligned(y, e))

\* float comparison <
Lt(x, y) == ~IsNaN(x) /\ ~IsNaN(y) /\ Compare(x, y) < 0

\* float comparison <=
Le(x, y) == ~IsNaN(x) /\ ~IsNaN(y) /\ Compare(x, y) <= 0

\* float comparison >=
Ge(x, y) == Le(y, x)

\* float comparison ==
NumEq(x, y) == Le(x, y) /\ Le(y, x)

\* ------------------------------------------------------------------ tables
Row(n, a, b, d) == [idx |-> n, id_start |-> a, id_end |-> b, distance |-> d]

\* integer-valued distances
Distances == {Fin(n) : n \in (-1)..MaxDist}
\* distances with decimals, as the CSV holds them: 0.3 and 0.33
DecimalDistances == {Dec(3, 10), Dec(33, 100)}
\* 0.1, whose sums round (0.1 + 0.1 + 0.1 is not the float 0.3, 0.1 + 1.0 not
\* the decimal 1.1), and 1.0, whose sums with itself are exact
PathDistances == {Dec(1, 10), Fin(1)}

\* A table read from CSV: rows indexed 0, 1, ... with finite distances.
InputFrame(s) ==
  [columns |-> TRUE,
   rows |-> [n \in 1..Len(s) |-> Row(n - 1, s[n][1], s[n][2], s[n][3])]]

InputRows(dists) == NodeIds \X NodeIds \X dists
\* Rows over four nodes, written with the lower identifier first: the fill
\* writes both orientations, so the rows written the other way round give
\* no other matrix.  A row may join a node to itself.
PathRows == {r \in PathIds \X PathIds \X PathDistances : r[1] <= r[2]}
InputSeqs(max, rows) == UNION {[1..n -> rows] : n \in 0..max}

\* set(df['id_start'].unique()) | set(df['id_end'].unique())
IdSet(f) == {f.rows[n].id_start : n \in 1..Len(f.rows)}
            \cup {f.rows[n].id_end : n \in 1..Len(f.rows)}

\* list(set(...)): the iteration order of a set is not fixed by the program;
\* every order of the identifiers is a possible one.
Orderings(S) ==
  {f \in [1..Cardinality(S) -> S] : \A x \in S : \E n \in 1..Cardinality(S) : f[n] = x}

Range(s) == {s[n] : n \in 1..Len(s)}

\* --------------------------------------------------- calculate_distance_matrix
\* pd.DataFrame(float('inf'), index=unique_ids, columns=unique_ids)
EmptyMatrix(ids) == [p \in Range(ids) \X Range(ids) |-> Inf]

\* a fill that writes the row in its own orientation only
FillCellOneWay(m, r) ==
  [m EXCEPT ![<<r.id_start, r.id_end>>] = r.distance]

\* one pass of the body of the iterrows loop
FillCell(m, r) ==
  [m EXCEPT ![<<r.id_start, r.id_end>>] = r.distance,
            ![<<r.id_end, r.id_start>>] = r.distance]

\* the loop that sets the diagonal
ZeroDiagonal(m, ids) ==
  [p \in DOMAIN m |-> IF p[1] = p[2] THEN Fin(0) ELSE m[p]]

\* a relaxation that stores the first leg instead of the sum of both
RelaxStepDropsLeg(m, c, a, b) ==
  IF Lt(Add(m[<<a, c>>], m[<<c, b>>]), m[<<a, b>>])
  THEN [m EXCEPT ![<<a, b>>] = m[<<a, c>>]]
  ELSE m

\* the body of the innermost Floyd-Warshall loop, for k = c, i = a, j = b
RelaxStep(m, c, a, b) ==
  LET through == Add(m[<<a, c>>], m[<<c, b>>]) IN
  IF Lt(through, m[<<a, b>>])
  THEN [m EXCEPT ![<<a, b>>] = through]
  ELSE m

RECURSIVE FillRows(_, _, _)
\* the iterrows loop over the first n rows
FillRows(m, rows, n) ==
  IF n = 0 THEN m ELSE FillCell(FillRows(m, rows, n - 1), rows[n])

\* The three loops, each from its n-th iteration on; an iteration starts on
\* the matrix the one before it has left.
RECURSIVE RelaxColumns(_, _, _, _, _)
\* for j in unique_ids, for k = c and i = a
RelaxColumns(m, ids, c, a, n) ==
  IF n > Len(ids) THEN m
  ELSE CHOOSE r \in {RelaxColumns(next, ids, c, a, n + 1) :
                       next \in {RelaxStep(m, c, a, ids[n])}} : TRUE

RECURSIVE RelaxRows(_, _, _, _)
\* for i in unique_ids, for k = c
RelaxRows(m, ids, c, n) ==
  IF n > Len(ids) THEN m
  ELSE CHOOSE r \in {RelaxRows(next, ids, c, n + 1) :
                       next \in {RelaxColumns(m, ids, c, ids[n], 1)}} : TRUE

RECURSIVE RelaxFrom(_, _, _)
\* for k in unique_ids
RelaxFrom(m, ids, n) ==
  IF n > Len(ids) THEN m
  ELSE CHOOSE r \in {RelaxFrom(next, ids, n + 1) :
                       next \in {RelaxRows(m, ids, ids[n], 1)}} : TRUE

\* calculate_distance_matrix(df) with unique_ids in the order ids
CalculateDistanceMatrix(f, ids) ==
  RelaxFrom(ZeroDiagonal(FillRows(EmptyMatrix(ids), f.rows, Len(f.rows)), ids), ids, 1)

\* ------------------------------------------------------ unroll_distance_matrix
\* the pairs (i, j) in the order of the two nested loops over index and columns
OrderedPairs(ids) ==
  [t \in 1..(Len(ids) * Len(ids)) |->
     <<ids[((t - 1) \div Len(ids)) + 1], ids[((t - 1) % Len(ids)) + 1]>>]

\* the loops that collect unrolled_data, and pd.DataFrame(unrolled_data)
UnrollMatrix(m, ids) ==
  LET ps == SelectSeq(OrderedPairs(ids), LAMBDA p : p[1] # p[2]) IN
  [columns |-> Len(ps) > 0,
   rows |-> [n \in 1..Len(ps) |-> Row(n - 1, ps[n][1], ps[n][2], m[ps[n]])]]

\* ------------------------------------------------------------------ results
\* What a call gives back: a table, or the exception it ended in.
Returned(columns, rows) == [error |-> "none", columns |-> columns, rows |-> rows]
\* df['id_start'] (or df['distance']) on a frame without columns
KeyError == [error |-> "KeyError", columns |-> FALSE, rows |-> <<>>]
NoResult == Returned(FALSE, <<>>)
NoFrame == [columns |-> FALSE, rows |-> <<>>]

\* ------------------------------------- find_ids_within_ten_percentage_threshold
\* Series.mean() divides the sum that numpy's add.reduce gives by the count.
\* numpy sums a contiguous float64 array pairwise: fewer than PairwiseUnroll
\* values left to right; up to PairwiseBlock values in PairwiseUnroll lanes
\* that are then added as a tree, the values after the last full group
\* added one by one; more values as the sum of the sums of two halves.
\* (With the optional bottleneck package pandas would sum left to right
\* throughout; the program does not ask for that package.)
\* lanes of the unrolled summation loop
PairwiseUnroll == 8
\* the largest array summed without splitting it
PairwiseBlock == 128

RECURSIVE Accumulate(_, _, _, _)
\* for (i = from; i <= to; i++) res += a[i]
Accumulate(a, res, from, to) ==
  IF from > to THEN res ELSE Accumulate(a, Add(res, a[from]), from + 1, to)

RECURSIVE Lane(_, _, _, _)
\* r[lane] after m groups: a[lo + lane], then += a[lo + 8 + lane], ...
Lane(a, lo, lane, m) ==
  IF m = 1 THEN a[lo + lane]
  ELSE Add(Lane(a, lo, lane, m - 1), a[lo + PairwiseUnroll * (m - 1) + lane])

RECURSIVE TreeSum(_, _, _)
\* the n lanes r[lo], ..., r[lo + n - 1] added as a balanced tree
TreeSum(r, lo, n) ==
  IF n = 1 THEN r[lo]
  ELSE Add(TreeSum(r, lo, n \div 2), TreeSum(r, lo + (n \div 2), n \div 2))

RECURSIVE PairwiseSum(_, _, _)
\* numpy's pairwise sum of the n floats a[lo + 1], ..., a[lo + n]
PairwiseSum(a, lo, n) ==
  IF n < PairwiseUnroll THEN Accumulate(a, Zero, lo + 1, lo + n)
  ELSE IF n <= PairwiseBlock
  THEN LET m == n \div PairwiseUnroll
           r == [lane \in 0..(PairwiseUnroll - 1) |-> Lane(a, lo + 1, lane, m)]
       IN Accumulate(a, TreeSum(r, 0, PairwiseUnroll), lo + PairwiseUnroll * m + 1, lo + n)
  ELSE LET n2 == (n \div 2) - ((n \div 2) % PairwiseUnroll) IN
       Add(PairwiseSum(a, lo, n2), PairwiseSum(a, lo + n2, n - n2))

\* the sum of the distance column of the first n rows
SumDistance(rows, n) ==
  PairwiseSum([m \in 1..n |-> rows[m].distance], 0, n)

\* Series.mean(): NaN for an empty selection
Mean(rows) ==
  IF Len(rows) = 0 THEN NaN
  ELSE LET s == SumDistance(rows, Len(rows)) IN
       Div(s, Len(rows))

\* df[df['id_start'] == reference_value]['distance'].mean()
ReferenceAvgDistance(f, reference_value) ==
  Mean(SelectSeq(f.rows, LAMBDA r : r.id_start = reference_value))

\* the row mask: avg - 0.1*avg <= distance <= avg + 0.1*avg
InThreshold(d, avg) ==
  LET threshold_range == Mul(Dec(1, 10), avg) IN
  Ge(d, Sub(avg, threshold_range)) /\ Le(d, Add(avg, threshold_range))

RECURSIVE Arrangements(_)
\* the orders of a set of rows that are ascending in id_start
Arrangements(S) ==
  IF S = {} THEN {<<>>}
  ELSE LET lo == CHOOSE x \in S : \A y \in S : x.id_start <= y.id_start
           G == {x \in S : x.id_start = lo.id_start}
       IN {h \o t : h \in Orderings(G), t \in Arrangements(S \ G)}

\* a sort that leaves the rows as they were
SortValuesKeepsOrder(rows) == {rows}

\* filtered_df.sort_values(by='id_start'): the default kind is quicksort, which
\* is not stable, so rows of equal id_start may come out in any order.
SortValues(rows) == Arrangements(Range(rows))

\* the results the call can give
FindIds(f, reference_value) ==
  IF ~f.columns THEN {KeyError}
  ELSE LET avg == ReferenceAvgDistance(f, reference_value)
           filtered == SelectSeq(f.rows, LAMBDA r : InThreshold(r.distance, avg))
       IN {Returned(TRUE, s) : s \in SortValues(filtered)}

\* --------------------------------------------------------- calculate_toll_rate
RateCoefficients ==
  [moto |-> Dec(8, 10), car |-> Dec(12, 10), rv |-> Dec(15, 10),
   bus |-> Dec(22, 10), truck |-> Dec(36, 10)]

\* df[vehicle_type] = df['distance'] * rate, for every vehicle type
TollRow(r) ==
  [idx |-> r.idx, id_start |-> r.id_start, id_end |-> r.id_end,
   distance |-> r.distance,
   moto |-> Mul(r.distance, RateCoefficients.moto),
   car |-> Mul(r.distance, RateCoefficients.car),
   rv |-> Mul(r.distance, RateCoefficients.rv),
   bus |-> Mul(r.distance, RateCoefficients.bus),
   truck |-> Mul(r.distance, RateCoefficients.truck)]

\* calculate_toll_rate(f), the builder iterating the identifiers in order ids
CalculateTollRate(f, ids) ==
  IF ~f.columns THEN KeyError
  ELSE LET u == UnrollMatrix(CalculateDistanceMatrix(f, ids), ids) IN
       IF ~u.columns THEN KeyError
       ELSE Returned(TRUE, [n \in 1..Len(u.rows) |-> TollRow(u.rows[n])])

\* --------------------------------------------- calculate_time_based_toll_rates
\* pd.to_datetime(..., format='%H:%M:%S').time() as <<hour, minute, second>>
TimeLe(s, t) ==
  \/ s[1] < t[1]
  \/ s[1] = t[1] /\ s[2] < t[2]
  \/ s[1] = t[1] /\ s[2] = t[2] /\ s[3] <= t[3]

WeekdayIntervals ==
  << <<(<<0, 0, 0>>), (<<10, 0, 0>>), Dec(8, 10)>>,
     <<(<<10, 0, 0>>), (<<18, 0, 0>>), Dec(12, 10)>>,
     <<(<<18, 0, 0>>), (<<23, 59, 59>>), Dec(8, 10)>> >>

WeekendIntervals ==
  << <<(<<0, 0, 0>>), (<<23, 59, 59>>), Dec(7, 10)>> >>

Weekdays == {"Monday", "Tuesday", "Wednesday", "Thursday", "Friday"}
Weekend == {"Saturday", "Sunday"}

\* the four column assignments after the filter
Stamp(r) ==
  [idx |-> r.idx, id_start |-> r.id_start, id_end |-> r.id_end,
   distance |-> r.distance,
   start_day |-> "Monday", end_day |-> "Sunday",
   start_time |-> <<0, 0, 0>>, end_time |-> <<23, 59, 59>>]

\* the mask of one interval, for one row
Mask(r, interval, days) ==
  /\ TimeLe(r.start_time, interval[1])
  /\ TimeLe(interval[2], r.end_time)
  /\ r.start_day \in days

\* a loop that applies only the first interval whose mask holds
ApplyFirstMatching(r, intervals, days, n) ==
  LET hits == {m \in 1..n : Mask(r, intervals[m], days)} IN
  IF hits = {} THEN r
  ELSE LET m == CHOOSE x \in hits : \A y \in hits : x <= y IN
       [r EXCEPT !.distance = Mul(@, intervals[m][3])]

RECURSIVE ApplyIntervals(_, _, _, _)
\* df.loc[mask, 'distance'] *= discount_factor for the first n intervals, in order
ApplyIntervals(r, intervals, days, n) ==
  IF n = 0 THEN r
  ELSE LET p == ApplyIntervals(r, intervals, days, n - 1) IN
       IF Mask(p, intervals[n], days)
       THEN [p EXCEPT !.distance = Mul(@, intervals[n][3])]
       ELSE p

\* one row through the weekday loop and then the weekend loop
AdjustRow(r) ==
  ApplyIntervals(
    ApplyIntervals(Stamp(r), WeekdayIntervals, Weekdays, Len(WeekdayIntervals)),
    WeekendIntervals, Weekend, Len(WeekendIntervals))

\* the results the call can give
CalculateTimeBasedTollRates(f) ==
  {IF g.error # "none" THEN g
   ELSE Returned(TRUE, [n \in 1..Len(g.rows) |-> AdjustRow(g.rows[n])])
   : g \in FindIds(f, RefNode)}

\* ------------------------------------------------------------ state machine
VARIABLES
  df,               \* the input table
  unique_ids,       \* the identifiers, in the order the loops visit them
  distance_matrix,  \* the matrix under construction
  pc,               \* position: fill, diag, relax, built, unrolled, done
  index,            \* the iterrows loop: next row (1-based position)
  k, i, j,          \* the Floyd-Warshall loops: positions in unique_ids
  unrolled_df,      \* unroll_distance_matrix's result
  call,             \* the downstream call made on a table
  result            \* what that call gave

vars == <<df, unique_ids, distance_matrix, pc, index, k, i, j, unrolled_df, call, result>>

NoCall == [fn |-> "none", arg |-> "none", reference_value |-> 0]

\* the state when calculate_distance_matrix has created its matrix, for every
\* input table of tables
Start(tables) ==
  /\ \E s \in tables : df = InputFrame(s)
  /\ unique_ids \in Orderings(IdSet(df))
  /\ distance_matrix = EmptyMatrix(unique_ids)
  /\ pc = "fill"
  /\ index = 1
  /\ k = 1 /\ i = 1 /\ j = 1
  /\ unrolled_df = NoFrame
  /\ call = NoCall
  /\ result = NoResult

Init == Start(InputSeqs(MaxCallRows, InputRows(Distances \cup DecimalDistances)))
BuildInit == Start(InputSeqs(MaxRows, InputRows(Distances)))
PathInit == Start(InputSeqs(MaxRows, PathRows))

\* one iteration of `for index, row in df.iterrows()`
FillRow ==
  /\ pc = "fill"
  /\ index <= Len(df.rows)
  /\ distance_matrix' = FillCell(distance_matrix, df.rows[index])
  /\ index' = index + 1
  /\ UNCHANGED <<df, unique_ids, pc, k, i, j, unrolled_df, call, result>>

\* the iterrows loop is exhausted
FillEnd ==
  /\ pc = "fill"
  /\ index > Len(df.rows)
  /\ pc' = "diag"
  /\ UNCHANGED <<df, unique_ids, distance_matrix, index, k, i, j, unrolled_df, call, result>>

\* `for i in unique_ids: distance_matrix.at[i, i] = 0`
SetDiagonal ==
  /\ pc = "diag"
  /\ distance_matrix' = ZeroDiagonal(distance_matrix, unique_ids)
  /\ pc' = IF Len(unique_ids) = 0 THEN "built" ELSE "relax"
  /\ UNCHANGED <<df, unique_ids, index, k, i, j, unrolled_df, call, result>>

\* the three loops are at their last iteration
LastStep ==
  j = Len(unique_ids) /\ i = Len(unique_ids) /\ k = Len(unique_ids)

\* one iteration of the innermost loop, and the loop counters' advance
Relax ==
  /\ pc = "relax"
  /\ distance_matrix' =
       RelaxStep(distance_matrix, unique_ids[k], unique_ids[i], unique_ids[j])
  /\ j' = IF LastStep THEN j ELSE IF j < Len(unique_ids) THEN j + 1 ELSE 1
  /\ i' = IF LastStep \/ j < Len(unique_ids) THEN i
          ELSE IF i < Len(unique_ids) THEN i + 1 ELSE 1
  /\ k' = IF LastStep \/ j < Len(unique_ids) \/ i < Len(unique_ids) THEN k ELSE k + 1
  /\ pc' = IF LastStep THEN "built" ELSE "relax"
  /\ UNCHANGED <<df, unique_ids, index, unrolled_df, call, result>>

\* unroll_distance_matrix(df), after its call of calculate_distance_matrix(df)
Unroll ==
  /\ pc = "built"
  /\ unrolled_df' = UnrollMatrix(distance_matrix, unique_ids)
  /\ pc' = "unrolled"
  /\ UNCHANGED <<df, unique_ids, distance_matrix, index, k, i, j, call, result>>

\* the table a downstream call is made on
Table(arg) == IF arg = "df" THEN df ELSE unrolled_df

\* find_ids_within_ten_percentage_threshold(table, reference_value)
CallFindIds ==
  /\ pc = "unrolled"
  /\ \E arg \in {"df", "unrolled"}, reference_value \in NodeIds :
       /\ call' = [fn |-> "find_ids", arg |-> arg, reference_value |-> reference_value]
       /\ result' \in FindIds(Table(arg), reference_value)
  /\ pc' = "done"
  /\ UNCHANGED <<df, unique_ids, distance_matrix, index, k, i, j, unrolled_df>>

\* The orders in which a call of the builder on the table may visit the
\* identifiers: the same call on the same table repeats the same order; on
\* another table the set is built anew and any order is possible.
IdOrders(arg) ==
  IF arg = "df" THEN {unique_ids} ELSE Orderings(IdSet(unrolled_df))

\* calculate_toll_rate(table); the call leaves its argument as it was
CallTollRate ==
  /\ pc = "unrolled"
  /\ \E arg \in {"df", "unrolled"} :
       /\ call' = [fn |-> "toll_rate", arg |-> arg, reference_value |-> 0]
       /\ \E ids \in IdOrders(arg) :
            result' = CalculateTollRate(Table(arg), ids)
  /\ pc' = "done"
  /\ UNCHANGED <<df, unique_ids, distance_matrix, index, k, i, j, unrolled_df>>

\* calculate_time_based_toll_rates(table)
CallTimeBased ==
  /\ pc = "unrolled"
  /\ \E arg \in {"df", "unrolled"} :
       /\ call' = [fn |-> "time_based", arg |-> arg, reference_value |-> RefNode]
       /\ result' \in CalculateTimeBasedTollRates(Table(arg))
  /\ pc' = "done"
  /\ UNCHANGED <<df, unique_ids, distance_matrix, index, k, i, j, unrolled_df>>

BuildNext ==
  \/ FillRow
  \/ FillEnd
  \/ SetDiagonal
  \/ Relax
  \/ Unroll

Next ==
  \/ BuildNext
  \/ CallFindIds
  \/ CallTollRate
  \/ CallTimeBased

\* the builder, the unroller and one downstream call
Spec == Init /\ [][Next]_vars
\* the builder and the unroller alone, on longer inputs
SpecBuild == BuildInit /\ [][BuildNext]_vars
\* the builder and the unroller on four nodes joined by decimal distances
SpecPaths == PathInit /\ [][BuildNext]_vars

\* The stepwise build computes calculate_distance_matrix(df).
BuildAgrees ==
  pc \in {"built", "unrolled", "done"} =>
    distance_matrix = CalculateDistanceMatrix(df, unique_ids)

\* ------------------------------------------------------------------ claims
Ids == IdSet(df)
Dist(a, b) == distance_matrix[<<a, b>>]

\* every input distance is >= 0
NonNegative(f) == \A n \in 1..Len(f.rows) : Le(Fin(0), f.rows[n].distance)

\* the weight of the pair {a, b}: the distance of the last row joining it
LastWeight(f, a, b) ==
  LET hits == {n \in 1..Len(f.rows) :
                 {f.rows[n].id_start, f.rows[n].id_end} = {a, b}} IN
  IF hits = {} THEN Inf
  ELSE f.rows[CHOOSE n \in hits : \A m \in hits : m <= n].distance

MinOf(S) == CHOOSE x \in S : \A y \in S : Le(x, y)

\* ---- exact arithmetic on values >= 0: a magnitude of any size, no rounding
\* x + y
ExactSum(x, y) ==
  IF IsInf(x) \/ IsInf(y) THEN Inf
  ELSE LET e == Min(x[4], y[4]) IN
       Canon(1, BAdd(Aligned(x, e), Aligned(y, e)), e)

\* |x - y| * 2^53 <= c * y, for finite x and y and c < Base
Close(x, y, c) ==
  LET e == Min(x[4], y[4])
      a == Aligned(x, e)
      b == Aligned(y, e)
      diff == IF BCmp(a, b) >= 0 THEN BSub(a, b) ELSE BSub(b, a)
  IN BCmp(BShl(diff, Precision), BMulSmall(b, c)) <= 0

\* x <= y * (1 + c * 2^-53), for finite x and y and c < Base
WithinFactor(x, y, c) ==
  \/ Le(x, y)
  \/ LET e == Min(x[4], y[4])
         a == Aligned(x, e)
         b == Aligned(y, e)
     IN BCmp(BShl(a, Precision), BAdd(BShl(b, Precision), BMulSmall(b, c))) <= 0

RECURSIVE PathMin(_, _, _, _)
\* the least total weight, summed exactly, of a path of f from a to b that
\* visits no node of seen, nor any node twice (with weights >= 0, no other
\* path weighs less); +infinity when there is none
PathMin(f, a, b, seen) ==
  IF a = b THEN Zero
  ELSE MinOf({Inf} \cup
             {ExactSum(LastWeight(f, a, c), PathMin(f, c, b, seen \cup {c})) :
                c \in {n \in IdSet(f) \ seen : IsFin(LastWeight(f, a, n))}})

\* the triples <<a, b, w>>: w is the least total weight of a path from a to b
Shortest == {<<a, b, PathMin(df, a, b, {a})>> : a \in Ids, b \in Ids}

\* every input distance is an integer
IntegerValued(f) == \A n \in 1..Len(f.rows) : f.rows[n].distance[4] >= 0

\* C1 as stated: for an input with non-negative distances, the returned
\* matrix holds for every pair of nodes the least total weight of an
\* undirected path between them (the weight of a pair being that of the last
\* row joining it), +infinity where there is no path, and no i, j, k satisfy
\* dist[i][k] + dist[k][j] < dist[i][j].
C1_ShortestPaths ==
  (pc = "built" /\ NonNegative(df)) =>
    /\ \A t \in Shortest : Dist(t[1], t[2]) = t[3]
    /\ \A a \in Ids, b \in Ids, c \in Ids :
         ~Lt(Add(Dist(a, c), Dist(c, b)), Dist(a, b))

\* C1 as amended: for an input with non-negative distances over N nodes, an
\* entry of the returned matrix is +infinity where no path joins the pair,
\* and elsewhere lies within the relative error N * 2^-53 of the least total
\* weight of an undirected path between the pair (last row of a pair wins);
\* it is that weight when the distances are integers; and dist[i][j] exceeds
\* dist[i][k] + dist[k][j] by no more than the factor 1 + 3N * 2^-53.
C1_ShortestPathsRounded ==
  (pc = "built" /\ NonNegative(df)) =>
    /\ \A t \in Shortest :
         /\ IsInf(t[3]) => Dist(t[1], t[2]) = Inf
         /\ IsFin(t[3]) =>
              /\ IsFin(Dist(t[1], t[2]))
              /\ Close(Dist(t[1], t[2]), t[3], Cardinality(Ids))
         /\ IntegerValued(df) => Dist(t[1], t[2]) = t[3]
    /\ \A a \in Ids, b \in Ids, c \in Ids :
         LET through == ExactSum(Dist(a, c), Dist(c, b)) IN
         IsFin(through) =>
           /\ IsFin(Dist(a, b))
           /\ WithinFactor(Dist(a, b), through, 3 * Cardinality(Ids))

\* A built matrix of a non-negative input in which the relaxation gave two
\* nodes without a row of their own a distance that is not the least path
\* weight, and that exceeds the sum, as the program computes it, of the
\* distances through a third node.
C1_Witness ==
  /\ pc = "built"
  /\ NonNegative(df)
  /\ \E t \in Shortest :
       /\ IsInf(LastWeight(df, t[1], t[2]))
       /\ IsFin(Dist(t[1], t[2]))
       /\ Dist(t[1], t[2]) # t[3]
       /\ \E c \in Ids :
            Lt(Add(Dist(t[1], c), Dist(c, t[2])), Dist(t[1], t[2]))

\* C2: the returned matrix is symmetric, for every input.
C2_Symmetric ==
  pc = "built" => \A a \in Ids, b \in Ids : Dist(a, b) = Dist(b, a)

\* A built matrix whose input names one pair of distinct nodes twice, in
\* both orientations and with different distances.
C2_Witness ==
  /\ pc = "built"
  /\ \E m \in 1..Len(df.rows), n \in 1..Len(df.rows) :
       /\ m < n
       /\ df.rows[m].id_start # df.rows[m].id_end
       /\ df.rows[m].id_start = df.rows[n].id_end
       /\ df.rows[m].id_end = df.rows[n].id_start
       /\ df.rows[m].distance # df.rows[n].distance

\* C3: the unrolled table has exactly N*(N-1) records, one for every ordered
\* pair of distinct nodes and none for a self-pair, each with a non-negative
\* distance equal to the entry of the built matrix.
C3_UnrollContract ==
  pc = "unrolled" =>
    /\ Len(unrolled_df.rows) = Cardinality(Ids) * (Cardinality(Ids) - 1)
    /\ \A a \in Ids, b \in Ids :
         a # b =>
           Cardinality({n \in 1..Len(unrolled_df.rows) :
                          /\ unrolled_df.rows[n].id_start = a
                          /\ unrolled_df.rows[n].id_end = b}) = 1
    /\ \A n \in 1..Len(unrolled_df.rows) :
         /\ unrolled_df.rows[n].id_start # unrolled_df.rows[n].id_end
         /\ Le(Fin(0), unrolled_df.rows[n].distance)
         /\ unrolled_df.rows[n].distance =
              Dist(unrolled_df.rows[n].id_start, unrolled_df.rows[n].id_end)

\* C8: an input with a negative distance is rejected: the relaxation never
\* runs on it and no matrix is returned.
C8_NegativeRejected ==
  ~NonNegative(df) => pc \notin {"relax", "built", "unrolled", "done"}

\* C9: the diagonal is zero when the relaxation starts, after every
\* relaxation step and in the returned matrix.
C9_ZeroDiagonal ==
  pc \in {"relax", "built"} => \A a \in Ids : Dist(a, a) = Fin(0)

\* ---- the downstream calls
Arg == Table(call.arg)
FindIdsReturned == pc = "done" /\ call.fn = "find_ids" /\ result.error = "none"
Labels(rows) == {rows[n].idx : n \in 1..Len(rows)}

\* the returned rows are rows of the input, each at most once
RowsOfInput(rows, f) ==
  /\ Cardinality(Labels(rows)) = Len(rows)
  /\ \A n \in 1..Len(rows) :
       /\ rows[n].idx + 1 \in 1..Len(f.rows)
       /\ rows[n] = f.rows[rows[n].idx + 1]

\* 0.9*avg <= d <= 1.1*avg
InBand(d, avg) == Le(Mul(Dec(9, 10), avg), d) /\ Le(d, Mul(Dec(11, 10), avg))

\* C4: the call returns exactly the rows of its table whose distance lies
\* in [0.9*avg, 1.1*avg], both bounds inclusive, avg being the mean distance
\* of the rows that start at the reference.  (Stated for inputs without
\* negative distances and a finite avg, which suffice to refute it.)
C4_ExactBand ==
  (/\ FindIdsReturned
   /\ NonNegative(df)
   /\ IsFin(ReferenceAvgDistance(Arg, call.reference_value)))
  =>
    /\ RowsOfInput(result.rows, Arg)
    /\ Labels(result.rows) =
         {Arg.rows[n].idx : n \in
            {m \in 1..Len(Arg.rows) :
               InBand(Arg.rows[m].distance,
                      ReferenceAvgDistance(Arg, call.reference_value))}}

\* C10 as stated: the returned rows ascend in id_start, and rows of equal
\* id_start keep the order they had in the input.  (Stated for inputs
\* without negative distances, which suffice to refute it.)
C10_StableSort ==
  (FindIdsReturned /\ NonNegative(df)) =>
    \A m \in 1..Len(result.rows), n \in 1..Len(result.rows) :
      m < n =>
        \/ result.rows[m].id_start < result.rows[n].id_start
        \/ /\ result.rows[m].id_start = result.rows[n].id_start
           /\ result.rows[m].idx < result.rows[n].idx

\* C10 as amended: the returned rows ascend in id_start.
C10_Ascending ==
  FindIdsReturned =>
    \A m \in 1..Len(result.rows), n \in 1..Len(result.rows) :
      m < n => result.rows[m].id_start <= result.rows[n].id_start

\* A returned table in which the sort moved a row ahead of one that preceded
\* it in the input.
C10_Witness ==
  /\ FindIdsReturned
  /\ \E m \in 1..Len(result.rows), n \in 1..Len(result.rows) :
       /\ m < n
       /\ result.rows[m].id_start < result.rows[n].id_start
       /\ result.rows[m].idx > result.rows[n].idx

\* C7: a reference that matches no row's id_start makes the call fail; it
\* does not return a table.  (Stated for non-empty tables of inputs without
\* negative distances, which suffice to refute it.)
C7_AbsentReferenceFails ==
  (/\ pc = "done"
   /\ NonNegative(df)
   /\ Len(Arg.rows) > 0
   /\ call.fn = "find_ids"
   /\ \A n \in 1..Len(Arg.rows) : Arg.rows[n].id_start # call.reference_value)
  => result.error # "none"

Triple(r) == <<r.id_start, r.id_end, r.distance>>

\* C5: on the unrolled table of a built matrix the call returns the same
\* (id_start, id_end, distance) rows, each with the five vehicle columns
\* equal to the distance times 0.8, 1.2, 1.5, 2.2 and 3.6.
C5_TollRateSameRows ==
  (pc = "done" /\ call.fn = "toll_rate" /\ call.arg = "unrolled") =>
    /\ result.error = "none"
    /\ {Triple(result.rows[n]) : n \in 1..Len(result.rows)}
         = {Triple(unrolled_df.rows[n]) : n \in 1..Len(unrolled_df.rows)}
    /\ Len(result.rows) = Len(unrolled_df.rows)
    /\ \A n \in 1..Len(result.rows) :
         /\ result.rows[n].moto = Mul(result.rows[n].distance, Dec(8, 10))
         /\ result.rows[n].car = Mul(result.rows[n].distance, Dec(12, 10))
         /\ result.rows[n].rv = Mul(result.rows[n].distance, Dec(15, 10))
         /\ result.rows[n].bus = Mul(result.rows[n].distance, Dec(22, 10))
         /\ result.rows[n].truck = Mul(result.rows[n].distance, Dec(36, 10))

TimeBasedReturned == pc = "done" /\ call.fn = "time_based" /\ result.error = "none"

\* C6: the output holds exactly the rows that pass the threshold filter with
\* reference 1001400, each stamped Monday..Sunday, 00:00:00..23:59:59, with
\* its distance multiplied by 0.8, 1.2 and 0.8 and never by 0.7.
C6_TimeBasedRows ==
  TimeBasedReturned =>
    /\ Cardinality(Labels(result.rows)) = Len(result.rows)
    /\ Labels(result.rows) =
         {Arg.rows[n].idx : n \in
            {m \in 1..Len(Arg.rows) :
               InThreshold(Arg.rows[m].distance, ReferenceAvgDistance(Arg, RefNode))}}
    /\ \A n \in 1..Len(result.rows) :
         /\ result.rows[n].id_start = Arg.rows[result.rows[n].idx + 1].id_start
         /\ result.rows[n].id_end = Arg.rows[result.rows[n].idx + 1].id_end
         /\ NumEq(result.rows[n].distance,
                  Mul(Mul(Mul(Arg.rows[result.rows[n].idx + 1].distance,
                              Dec(8, 10)), Dec(12, 10)), Dec(8, 10)))
         /\ result.rows[n].start_day = "Monday"
         /\ result.rows[n].end_day = "Sunday"
         /\ result.rows[n].start_time = <<0, 0, 0>>
         /\ result.rows[n].end_time = <<23, 59, 59>>

\* An output with a row of non-zero distance, where 0.768 and the other
\* products of the factors differ.
C6_Witness ==
  /\ TimeBasedReturned
  /\ \E n \in 1..Len(result.rows) : result.rows[n].distance[2] # 0

====
